---- MODULE Spec2Model ----
(***************************************************************************)
(* TabCorr (src/tabcorr/tabcorr.py): tabulation of halo correlation        *)
(* functions, prediction for an occupation model, and persistence.         *)
(*                                                                         *)
(* Conventions.                                                            *)
(*  - A primary halo property (a mass) is one of Masses, all powers of     *)
(*    ten, so that np.log10 is the exact integer Log10.  Bin edges are     *)
(*    rationals; they are kept as integers scaled by EdgeScale.  10**x is  *)
(*    strictly increasing, so "10**edge < mass" is decided in log space.   *)
(*  - A density count/np.prod(Lbox) is the pair <<count, Volume>>.         *)
(*  - The correlation callable is opaque: what it returns is kept as a     *)
(*    term over its arguments (Tpcf), one per statistic element.           *)
(*  - A position subset is the sequence of the galaxy rows it holds.       *)
(***************************************************************************)
EXTENDS Integers, Sequences, FiniteSets, TLC

VARIABLES
    halocat,       \* the halo catalogue handed to tabulate
    mode,          \* 'auto' or 'cross'
    sec_haloprop,  \* the secondary split flag
    halos,         \* the filtered halo table (local of tabulate)
    gals,          \* the mock galaxy table after downsampling
    pos,           \* per-bin position subsets
    tpcf_matrix,   \* the local tpcf_matrix: [bound, shape, cells]
    calls,         \* the invocations of the correlation callable, in order
    halotab,       \* the TabCorr object (self)
    pc,            \* position in tabulate
    prediction,    \* what predict last returned
    files,         \* the file system: file name -> stored bundle
    loaded,        \* what read last returned
    lastOp         \* the last persistence operation and its outcome

vars == <<halocat, mode, sec_haloprop, halos, gals, pos, tpcf_matrix,
          calls, halotab, pc, prediction, files, loaded, lastOp>>


----------------------------------------------------------------------------
(* Bounds of the model *)

NHalos == 2
NGals == 2
NBins == 2
NStat == 1
MaxArgs == 11
MaxOcc == 1

(* Fixed inputs *)

Num_ptcl_requirement == 10
particle_mass == 1
sec_haloprop_split == 50
Lbox == <<2, 2, 2>>
Masses == {1, 10, 100}
Percentiles == {25, 50}
Modes == {"auto", "cross"}
tpcf_name == "wp"

----------------------------------------------------------------------------
(* Helpers *)

RECURSIVE SumTo(_, _)
SumTo(s, n) == IF n = 0 THEN 0 ELSE s[n] + SumTo(s, n - 1)

\* np.sum of a one-dimensional array
SumSeq(s) == SumTo(s, Len(s))

RECURSIVE Log10(_)
Log10(m) == IF m < 10 THEN 0 ELSE 1 + Log10(m \div 10)

SeqMin(s) == CHOOSE x \in {s[j] : j \in 1..Len(s)} :
                 \A j \in 1..Len(s) : x <= s[j]
SeqMax(s) == CHOOSE x \in {s[j] : j \in 1..Len(s)} :
                 \A j \in 1..Len(s) : x >= s[j]

Volume == Lbox[1] * Lbox[2] * Lbox[3]

EdgeScale == 2 * NBins

\* indices of a sequence that satisfy a mask, in order
RECURSIVE Where(_, _)
Where(n, mask) ==
    IF n = 0 THEN <<>>
    ELSE IF mask[n] THEN Append(Where(n - 1, mask), n) ELSE Where(n - 1, mask)

----------------------------------------------------------------------------
(* np.histogram *)

\* the range np.histogram gives n bins over the values a (in log10)
HistRange(a) ==
    IF Len(a) = 0 THEN <<0, EdgeScale>>
    ELSE IF SeqMin(a) = SeqMax(a)
         THEN <<EdgeScale * SeqMin(a) - NBins, EdgeScale * SeqMax(a) + NBins>>
         ELSE <<EdgeScale * SeqMin(a), EdgeScale * SeqMax(a)>>

\* np.linspace(first, last, NBins + 1), scaled by EdgeScale
HistEdges(a) ==
    LET r == HistRange(a)
    IN  [j \in 1..(NBins + 1) |-> r[1] + (j - 1) * ((r[2] - r[1]) \div NBins)]

\* mutant: every bin half-open, the last one too
InHistBinHalfOpen(v, edges, j) ==
    /\ edges[j] <= EdgeScale * v
    /\ EdgeScale * v < edges[j + 1]

\* is the value v (log10, unscaled) counted in bin j of the edges
InHistBin(v, edges, j) ==
    /\ edges[j] <= EdgeScale * v
    /\ \/ EdgeScale * v < edges[j + 1]
       \/ j = Len(edges) - 1 /\ EdgeScale * v = edges[j + 1]

\* the counts of np.histogram(a, bins=edges)
HistCounts(a, edges) ==
    [j \in 1..(Len(edges) - 1) |->
        Cardinality({x \in 1..Len(a) : InHistBin(a[x], edges, j)})]

----------------------------------------------------------------------------
(* numpy array builders used for the columns of the bin table *)

RECURSIVE Tile(_, _)
Tile(s, n) == IF n = 0 THEN <<>> ELSE s \o Tile(s, n - 1)

\* np.repeat(np.array(s), n): each element n times
RECURSIVE RepeatEach(_, _)
RepeatEach(s, n) ==
    IF s = <<>> THEN <<>>
    ELSE [j \in 1..n |-> Head(s)] \o RepeatEach(Tail(s), n)

\* np.repeat(x, n) of a scalar
Repeat(x, n) == [j \in 1..n |-> x]

----------------------------------------------------------------------------
(* Inputs *)

HaloKey(h) == 4 * Log10(h.mass) + (IF h.halo_pid = -1 THEN 0 ELSE 2)
              + (IF h.sec_percentile < sec_haloprop_split THEN 0 ELSE 1)

\* Halo catalogues: NHalos rows, ids 1..NHalos; sec_percentile is what
\* compute_conditional_percentiles gives the halo.  Rows are listed in
\* non-decreasing HaloKey order (the table operations are row-wise).
HaloCatalogs ==
    {c \in [1..NHalos -> [halo_pid : {-1, 1}, mass : Masses,
                          sec_percentile : Percentiles]] :
        \A j \in 1..(NHalos - 1) : HaloKey(c[j]) <= HaloKey(c[j + 1])}

GalKey(g) == NHalos * (IF g.gal_type = "centrals" THEN 0 ELSE 1) + g.halo_id

\* Mock galaxy tables of populate_mock: up to NGals galaxies, each in some
\* halo of the catalogue, centrals listed before satellites.
MockTables ==
    UNION {{t \in [1..n -> [halo_id : 1..NHalos,
                            gal_type : {"centrals", "satellites"}]] :
               \A j \in 1..(n - 1) : GalKey(t[j]) <= GalKey(t[j + 1])} :
           n \in 0..NGals}

NoCall == [sample1 |-> <<>>, sample2 |-> <<>>, kw |-> {},
           do_auto |-> FALSE, do_cross |-> FALSE]

\* the value np.zeros puts in a matrix cell
Zero == <<0, NoCall>>

\* The correlation callable: opaque and deterministic.  Its result is the
\* term over the arguments it was given, one term per statistic element.
Tpcf(args) == [e \in 1..NStat |-> <<e, args>>]

Unbound == [bound |-> FALSE, shape |-> <<>>, cells |-> <<>>]

NewTabCorr == [init |-> FALSE, gal_type |-> <<>>, attrs |-> <<>>,
               tpcf_args |-> <<>>, tpcf_kwargs |-> {},
               tpcf_shape |-> <<>>, tpcf_matrix |-> <<>>]

NoPrediction == [made |-> FALSE, model |-> [cen |-> 0, sat |-> 0],
                 ngal |-> <<>>, xi |-> <<>>]

FNames == {"f1", "f2"}

NoOp == [op |-> "none", fname |-> "", ok |-> TRUE]

\* A file is absent or holds a bundle: the attributes, the members present
\* (has) and their contents.  A group is the set of its <<name, value>>
\* entries.  fresh marks a bundle written in this run.
NoFile == [exists |-> FALSE, fresh |-> FALSE, attrs |-> <<>>, has |-> {},
           tpcf_matrix |-> <<>>, tpcf_args |-> {}, tpcf_kwargs |-> {},
           tpcf_shape |-> <<>>, gal_type |-> <<>>]

----------------------------------------------------------------------------
(* tabulate: the bin table (lines 123-171) *)

\* lines 127-129: host halos at or above the particle-count threshold
Qualifies(h) ==
    /\ h.halo_pid = -1
    /\ h.mass >= Num_ptcl_requirement * particle_mass

FilterHalos(cat) ==
    LET idx == Where(Len(cat), [j \in 1..Len(cat) |-> Qualifies(cat[j])])
    IN  [j \in 1..Len(idx) |->
            [halo_id |-> idx[j], mass |-> cat[idx[j]].mass,
             sec_percentile |-> cat[idx[j]].sec_percentile]]

\* np.log10(halos[prim_haloprop_key][mask])
LogPrim(hs, mask) ==
    LET idx == Where(Len(hs), mask)
    IN  [j \in 1..Len(idx) |-> Log10(hs[idx[j]].mass)]

AllRows(hs) == [j \in 1..Len(hs) |-> TRUE]
LowSec(hs) == [j \in 1..Len(hs) |-> hs[j].sec_percentile < sec_haloprop_split]
HighSec(hs) == [j \in 1..Len(hs) |-> hs[j].sec_percentile >= sec_haloprop_split]

\* lines 135-171: the bin table, column by column
BinTable(hs, sec) ==
    LET edges == HistEdges(LogPrim(hs, AllRows(hs)))
        n_h   == HistCounts(LogPrim(hs, AllRows(hs)), edges)
        n_h_0 == HistCounts(LogPrim(hs, LowSec(hs)), edges)
        n_h_1 == HistCounts(LogPrim(hs, HighSec(hs)), edges)
        col_n == IF sec THEN Tile(n_h_0 \o n_h_1, 2) ELSE Tile(n_h, 2)
        len   == Len(col_n)
        col_s == Tile(RepeatEach(<<0, 1>>, Len(n_h)), 2)
        col_t == Repeat("centrals", len \div 2) \o
                 Repeat("satellites", len \div 2)
        col_lo == Tile(SubSeq(edges, 1, NBins), len \div NBins)
        col_hi == Tile(SubSeq(edges, 2, NBins + 1), len \div NBins)
    IN  [r \in 1..len |->
            [n_h |-> <<col_n[r], Volume>>,
             sec |-> IF sec THEN col_s[r] ELSE -1,
             gal_type |-> col_t[r],
             log_prim_haloprop_min |-> col_lo[r],
             log_prim_haloprop_max |-> col_hi[r],
             prim_haloprop |-> col_lo[r] + col_hi[r]]]

BinHalos ==
    /\ pc = "bin"
    /\ halos' = FilterHalos(halocat)
    /\ halotab' = [halotab EXCEPT !.gal_type = BinTable(halos', sec_haloprop)]
    /\ pc' = "populate"
    /\ UNCHANGED <<halocat, mode, sec_haloprop, gals, pos, tpcf_matrix,
                   calls, prediction, files, loaded, lastOp>>

----------------------------------------------------------------------------
(* tabulate: the mock galaxies (lines 174-189) *)

\* halotools.utils.crossmatch(x, y): the pairs (index in x, index in y) of
\* equal ids, for every element of x that occurs in y (y has no repeats)
Crossmatch(x, y) ==
    LET hit == Where(Len(x), [g \in 1..Len(x) |->
                                 \E h \in 1..Len(y) : y[h] = x[g]])
    IN  [j \in 1..Len(hit) |->
            <<hit[j], CHOOSE h \in 1..Len(y) : y[h] = x[hit[j]]>>]

\* line 186
JoinAssertion(gs, hs, m) ==
    \A j \in 1..Len(m) : gs[m[j][1]].halo_id = hs[m[j][2]].halo_id

\* lines 187-189: zeros, then the matched galaxies get their halo's value
JoinPercentiles(gs, hs, m) ==
    [g \in 1..Len(gs) |->
        [gs[g] EXCEPT !.sec_percentile =
            IF \E j \in 1..Len(m) : m[j][1] = g
            THEN hs[m[CHOOSE j \in 1..Len(m) : m[j][1] = g][2]].sec_percentile
            ELSE 0]]

MatchOf(gs, hs) ==
    Crossmatch([g \in 1..Len(gs) |-> gs[g].halo_id],
               [h \in 1..Len(hs) |-> hs[h].halo_id])

\* lines 181-183: the mock and its random downsampling
Downsample(cat, mock, keep) ==
    LET idx == Where(Len(mock), keep)
    IN  [j \in 1..Len(idx) |->
            [halo_id |-> mock[idx[j]].halo_id,
             gal_type |-> mock[idx[j]].gal_type,
             mass |-> cat[mock[idx[j]].halo_id].mass,
             sec_percentile |-> 0]]

\* lines 174-189: the mock galaxies, joined to their halos
PopulateMock ==
    /\ pc = "populate"
    /\ \E mock \in MockTables :
       \E keep \in [1..Len(mock) -> BOOLEAN] :
       \E kept \in {Downsample(halocat, mock, keep)} :
       \E m \in {MatchOf(kept, halos)} :
          IF JoinAssertion(kept, halos, m)
          THEN /\ gals' = JoinPercentiles(kept, halos, m)
               /\ pc' = "assign"
          ELSE /\ gals' = kept
               /\ pc' = "error"
    /\ UNCHANGED <<halocat, mode, sec_haloprop, halos, pos, tpcf_matrix,
                   calls, halotab, prediction, files, loaded, lastOp>>

----------------------------------------------------------------------------
(* tabulate: the position subsets (lines 197-214) *)

\* lines 200-212: is galaxy g in the subset of bin b
InBin(b, g, sec) ==
    /\ b.log_prim_haloprop_min < EdgeScale * Log10(g.mass)
    /\ b.log_prim_haloprop_max >= EdgeScale * Log10(g.mass)
    /\ b.gal_type = g.gal_type
    /\ sec => IF b.sec = 0
              THEN g.sec_percentile < sec_haloprop_split
              ELSE g.sec_percentile >= sec_haloprop_split

PositionSubsets(table, gs, sec) ==
    [i \in 1..Len(table) |->
        Where(Len(gs), [g \in 1..Len(gs) |-> InBin(table[i], gs[g], sec)])]

AssignPositions ==
    /\ pc = "assign"
    /\ pos' = PositionSubsets(halotab.gal_type, gals, sec_haloprop)
    /\ pc' = "loop"
    /\ UNCHANGED <<halocat, mode, sec_haloprop, halos, gals, tpcf_matrix,
                   calls, halotab, prediction, files, loaded, lastOp>>

----------------------------------------------------------------------------
(* tabulate: the matrix (lines 216-247) *)

\* mutant: the second sample is passed on the diagonal too
AutoArgsAlwaysSecond(p, i, k) ==
    [sample1 |-> p[i],
     sample2 |-> <<p[k]>>,
     kw |-> {"sample2", "do_auto", "do_cross"},
     do_auto |-> (i = k), do_cross |-> ~(i = k)]

\* lines 224-228: the arguments of one auto-mode invocation
AutoArgs(p, i, k) ==
    [sample1 |-> p[i],
     sample2 |-> IF k # i THEN <<p[k]>> ELSE <<>>,
     kw |-> {"sample2", "do_auto", "do_cross"},
     do_auto |-> (i = k), do_cross |-> ~(i = k)]

\* lines 239-240
CrossArgs(p, i) ==
    [sample1 |-> p[i], sample2 |-> <<>>, kw |-> {},
     do_auto |-> FALSE, do_cross |-> FALSE]

\* lines 229-233: allocated at the first invocation
AllocAuto(m, n) ==
    IF m.bound THEN m
    ELSE [bound |-> TRUE, shape |-> <<NStat>>,
          cells |-> [a \in 1..n |-> [b \in 1..n |->
                       [e \in 1..NStat |-> Zero]]]]

\* lines 243-246
AllocCross(m, n) ==
    IF m.bound THEN m
    ELSE [bound |-> TRUE, shape |-> <<NStat>>,
          cells |-> [a \in 1..n |-> [e \in 1..NStat |-> Zero]]]

\* mutant: the mirrored cell is not written
AutoCellsOneSided(i, k) == {<<i, k>>}

\* lines 234-235: the cells one auto-mode result is stored in
AutoCells(i, k) == {<<i, k>>, <<k, i>>}

StoreAuto(m, i, k, xi) ==
    [m EXCEPT !.cells =
        [a \in 1..Len(m.cells) |-> [b \in 1..Len(m.cells) |->
            IF <<a, b>> \in AutoCells(i, k) THEN xi ELSE m.cells[a][b]]]]

\* line 247
StoreCross(m, i, xi) == [m EXCEPT !.cells[i] = xi]

\* line 241-242: delta_sigma returns a pair, of which the second is kept
CrossResult(xi) == IF tpcf_name = "delta_sigma" THEN xi[2] ELSE xi

\* lines 222-235: the inner loop of row i, from column k on; st = [m, calls]
RECURSIVE AutoRow(_, _, _, _)
AutoRow(p, i, k, st) ==
    IF k > Len(p) THEN st
    ELSE IF Len(p[i]) * Len(p[k]) > 0
         THEN LET args == AutoArgs(p, i, k)
                  xi == Tpcf(args)
              IN  AutoRow(p, i, k + 1,
                      [m |-> StoreAuto(AllocAuto(st.m, Len(p)), i, k, xi),
                       calls |-> Append(st.calls,
                                    [i |-> i, k |-> k, args |-> args,
                                     wrote |-> AutoCells(i, k)])])
         ELSE AutoRow(p, i, k + 1, st)

\* lines 238-247
CrossRow(p, i, st) ==
    IF Len(p[i]) > 0
    THEN LET args == CrossArgs(p, i)
             xi == CrossResult(Tpcf(args))
         IN  [m |-> StoreCross(AllocCross(st.m, Len(p)), i, xi),
              calls |-> Append(st.calls, [i |-> i, k |-> 0, args |-> args,
                                          wrote |-> {<<i>>}])]
    ELSE st

\* lines 216-247: the loop over the rows, from row i on
RECURSIVE MatrixLoop(_, _, _, _)
MatrixLoop(p, md, i, st) ==
    IF i > Len(p) THEN st
    ELSE MatrixLoop(p, md, i + 1,
             IF md = "auto" THEN AutoRow(p, i, i, st)
             ELSE IF md = "cross" THEN CrossRow(p, i, st)
             ELSE st)

----------------------------------------------------------------------------
(* tabulate: the object returned (lines 249-267) *)

Attrs(m, sec) ==
    [tpcf |-> tpcf_name, mode |-> m, simname |-> "sim", redshift |-> 0,
     Num_ptcl_requirement |-> Num_ptcl_requirement,
     prim_haloprop_key |-> "halo_mvir", sec_haloprop |-> sec,
     sec_haloprop_key |-> "halo_nfw_conc",
     sec_haloprop_split |-> sec_haloprop_split]

\* mutant: with nothing tabulated an object with an empty matrix is returned
ReturnedLenient(ht, m, md, sec) ==
    [ok |-> TRUE,
     obj |-> [ht EXCEPT !.attrs = Attrs(md, sec),
                        !.tpcf_shape = m.shape,
                        !.tpcf_matrix = m.cells,
                        !.init = TRUE]]

\* lines 249-267.  Lines 262-263 read the locals tpcf_shape and tpcf_matrix,
\* which exist only once the callable has been invoked: otherwise
\* UnboundLocalError, and nothing is returned
Returned(ht, m, md, sec) ==
    IF m.bound
    THEN [ok |-> TRUE,
          obj |-> [ht EXCEPT !.attrs = Attrs(md, sec),
                             !.tpcf_args = <<>>,
                             !.tpcf_kwargs = {},
                             !.tpcf_shape = m.shape,
                             !.tpcf_matrix = m.cells,
                             !.init = TRUE]]
    ELSE [ok |-> FALSE, obj |-> ht]

\* lines 216-267: the matrix and the object returned
BuildMatrix ==
    /\ pc = "loop"
    /\ \E st \in {MatrixLoop(pos, mode, 1, [m |-> tpcf_matrix, calls |-> calls])} :
       \E ret \in {Returned(halotab, st.m, mode, sec_haloprop)} :
          /\ tpcf_matrix' = st.m
          /\ calls' = st.calls
          /\ halotab' = ret.obj
          /\ pc' = IF ret.ok THEN "done" ELSE "error"
    /\ UNCHANGED <<halocat, mode, sec_haloprop, halos, gals, pos,
                   prediction, files, loaded, lastOp>>

----------------------------------------------------------------------------

Init ==
    /\ halocat \in HaloCatalogs
    /\ mode \in Modes
    /\ sec_haloprop \in BOOLEAN
    /\ halos = <<>>
    /\ gals = <<>>
    /\ pos = <<>>
    /\ tpcf_matrix = Unbound
    /\ calls = <<>>
    /\ halotab = NewTabCorr
    /\ pc = "bin"
    /\ prediction = NoPrediction
    /\ files = [f \in FNames |-> NoFile]
    /\ loaded = NewTabCorr
    /\ lastOp = NoOp

Next ==
    \/ BinHalos
    \/ PopulateMock
    \/ AssignPositions
    \/ BuildMatrix

Spec == Init /\ [][Next]_vars

----------------------------------------------------------------------------
(* Properties of tabulate *)

Rows == 1..Len(halotab.gal_type)
AfterAssign == pc \in {"loop", "done", "error"} /\ Len(pos) > 0
AfterLoop == pc \in {"done", "error"} /\ Len(pos) > 0
NonEmpty(i) == Len(pos[i]) > 0

QualifyingHalos == {h \in 1..Len(halocat) : Qualifies(halocat[h])}

\* C1: in auto mode the matrix, while it is built and as returned, is the
\* same under a swap of its two bin indices, for every statistic element.
C1_Symmetric ==
    /\ (mode = "auto" /\ tpcf_matrix.bound) =>
          \A i \in Rows, j \in Rows, e \in 1..NStat :
             tpcf_matrix.cells[i][j][e] = tpcf_matrix.cells[j][i][e]
    /\ (mode = "auto" /\ pc = "done") =>
          \A i \in Rows, j \in Rows, e \in 1..NStat :
             halotab.tpcf_matrix[i][j][e] = halotab.tpcf_matrix[j][i][e]

\* a returned auto-mode matrix with a stored cross term and a skipped pair
C1_Witness ==
    /\ pc = "done" /\ mode = "auto"
    /\ \E i \in Rows, j \in Rows :
          /\ i # j
          /\ halotab.tpcf_matrix[i][j][1] # Zero
    /\ \E i \in Rows : ~NonEmpty(i)

BinsOf(g) == {i \in Rows : g \in {pos[i][x] : x \in 1..Len(pos[i])}}

\* C2: every kept galaxy whose host halo passed the filters is in the
\* position subset of exactly one bin.
C2_ExactlyOneBin ==
    AfterAssign =>
       \A g \in 1..Len(gals) :
          gals[g].halo_id \in QualifyingHalos => Cardinality(BinsOf(g)) = 1

CentralCount(table) ==
    SumSeq([r \in 1..(Len(table) \div 2) |-> table[r].n_h[1]])

\* C3: the central rows' densities, times the volume, add up to the number
\* of qualifying halos, with and without the secondary split.
C3_DensityConsistent ==
    pc # "bin" =>
       /\ \A r \in Rows : halotab.gal_type[r].n_h[2] = Volume
       /\ \A r \in Rows : halotab.gal_type[r].gal_type = "centrals"
                             <=> r <= Len(halotab.gal_type) \div 2
       /\ CentralCount(halotab.gal_type) * Volume =
             Cardinality(QualifyingHalos) * Volume
       /\ pc = "populate" =>
             \A s \in BOOLEAN :
                CentralCount(BinTable(halos, s)) = Cardinality(QualifyingHalos)

\* every halo qualifies, on both sides of the split, in a split table
C3_Witness ==
    /\ pc = "populate" /\ sec_haloprop
    /\ Cardinality(QualifyingHalos) = NHalos
    /\ \E r \in Rows : halotab.gal_type[r].sec = 0 /\ halotab.gal_type[r].n_h[1] > 0
    /\ \E r \in Rows : halotab.gal_type[r].sec = 1 /\ halotab.gal_type[r].n_h[1] > 0

Unmatched == {g \in 1..Len(gals) :
                 \A h \in 1..Len(halos) : halos[h].halo_id # gals[g].halo_id}

\* C7: a galaxy whose halo_id matches no filtered halo aborts the run at the
\* cross-match check.
C7_JoinIntegrity ==
    (pc \in {"assign", "loop", "done"}) => Unmatched = {}

AllEmpty == \A i \in 1..Len(pos) : ~NonEmpty(i)

\* C9 as stated: with no qualifying halo tabulate completes, with a bin table
\* of zero rows and an empty matrix.
C9_Original ==
    (pc \in {"done", "error"} /\ Len(halos) = 0 /\ AllEmpty) =>
       /\ pc = "done"
       /\ Len(halotab.gal_type) = 0

\* C9 amended: with no qualifying halo and every position subset empty the
\* callable is never invoked, tpcf_matrix and tpcf_shape stay unbound and
\* tabulate fails instead of returning; the bin table it built has its
\* 2 * bins (* 2 with the split) rows, all of density zero.
C9_Amended ==
    (AfterLoop /\ Len(halos) = 0 /\ AllEmpty) =>
       /\ calls = <<>>
       /\ ~tpcf_matrix.bound
       /\ pc # "done"
       /\ ~halotab.init
       /\ Len(halotab.gal_type) = 2 * NBins * (IF sec_haloprop THEN 2 ELSE 1)
       /\ \A r \in Rows : halotab.gal_type[r].n_h[1] = 0

C9_Witness ==
    /\ pc = "error" /\ Len(pos) > 0
    /\ Len(halos) = 0 /\ AllEmpty

CallsOf(i, k) == {c \in 1..Len(calls) : calls[c].i = i /\ calls[c].k = k}

\* C10: in auto mode the callable is invoked once per pair i <= k of
\* non-empty subsets and never otherwise, with do_auto and no second sample
\* exactly when i = k and do_cross with bin k's positions when i # k; the
\* cells of a skipped pair are zero and no cell is written by two invocations.
C10_Invocations ==
    (AfterLoop /\ mode = "auto") =>
       /\ \A i \in Rows, k \in Rows :
             IF i <= k /\ NonEmpty(i) /\ NonEmpty(k)
             THEN Cardinality(CallsOf(i, k)) = 1
             ELSE CallsOf(i, k) = {}
       /\ \A c \in 1..Len(calls) :
             LET i == calls[c].i
                 k == calls[c].k
                 a == calls[c].args
             IN  /\ a.sample1 = pos[i]
                 /\ a.do_auto = (i = k)
                 /\ a.do_cross = (i # k)
                 /\ a.sample2 = IF i = k THEN <<>> ELSE <<pos[k]>>
       /\ tpcf_matrix.bound =>
             \A i \in Rows, k \in Rows :
                (~NonEmpty(i) \/ ~NonEmpty(k)) =>
                   \A e \in 1..NStat : tpcf_matrix.cells[i][k][e] = Zero
       /\ pc = "done" =>
             \A i \in Rows, k \in Rows :
                (~NonEmpty(i) \/ ~NonEmpty(k)) =>
                   \A e \in 1..NStat : halotab.tpcf_matrix[i][k][e] = Zero
       /\ \A c \in 1..Len(calls), d \in 1..Len(calls) :
             c # d => calls[c].wrote \cap calls[d].wrote = {}
       /\ tpcf_matrix.bound =>
             \A i \in Rows, k \in Rows :
                (NonEmpty(i) /\ NonEmpty(k)) =>
                   \A e \in 1..NStat :
                      tpcf_matrix.cells[i][k][e] =
                         Tpcf(calls[CHOOSE c \in 1..Len(calls) :
                                       <<i, k>> \in calls[c].wrote].args)[e]

\* two non-empty bins, hence an auto, a cross and a second auto invocation,
\* beside skipped pairs
C10_Witness ==
    /\ pc = "done" /\ mode = "auto"
    /\ Len(calls) = 3
    /\ \E i \in Rows : ~NonEmpty(i)

----------------------------------------------------------------------------
(* predict (lines 339-382) *)

\* Occupation models: mean_occupation_centrals and mean_occupation_satellites
\* of the model handed to predict, here constant over the bins.
ModelSet == [cen : 0..MaxOcc, sat : 0..MaxOcc]

\* mutant: the satellite rows get the central evaluator too
MeanOccupationAllCentral(table, model) ==
    [r \in 1..Len(table) |-> model.cen]

\* lines 361-371
MeanOccupation(table, model) ==
    [r \in 1..Len(table) |->
        IF table[r].gal_type = "centrals" THEN model.cen ELSE model.sat]

\* line 373: mean_occupation * n_h, a density <<count, volume>> per bin
Ngal(table, model) ==
    LET occ == MeanOccupation(table, model)
    IN  [r \in 1..Len(table) |-> <<occ[r] * table[r].n_h[1], table[r].n_h[2]>>]

\* np.sum of densities over one volume
SumDensity(d) == <<SumSeq([r \in 1..Len(d) |-> d[r][1]]), Volume>>

\* mutant: a zero denominator is answered with zero
FDivGuarded(a, b) ==
    IF b[1] = 0 THEN [kind |-> "finite", num |-> 0, den |-> 1]
    ELSE [kind |-> "finite", num |-> a[1] * b[2], den |-> a[2] * b[1]]

\* float division a / b of numpy: no error, nan for 0/0 and inf for x/0
FDiv(a, b) ==
    IF b[1] = 0
    THEN [kind |-> IF a[1] = 0 THEN "nan" ELSE "inf", num |-> 0, den |-> 1]
    ELSE [kind |-> "finite", num |-> a[1] * b[2], den |-> a[2] * b[1]]

FEq(x, y) ==
    /\ x.kind = y.kind
    /\ x.kind = "finite" => x.num * y.den = y.num * x.den

\* lines 375-377
PredictAuto(obj, ngal) ==
    LET n == Len(ngal)
        tot == SumDensity(ngal)
    IN  [e \in 1..obj.tpcf_shape[1] |->
            FDiv(<<SumSeq([i \in 1..n |-> SumSeq([j \in 1..n |->
                               obj.tpcf_matrix[i][j][e] * ngal[i][1] * ngal[j][1]])]),
                   Volume * Volume>>,
                 <<tot[1] * tot[1], tot[2] * tot[2]>>)]

\* lines 379-380
PredictCross(obj, ngal) ==
    LET n == Len(ngal)
        tot == SumDensity(ngal)
    IN  [e \in 1..obj.tpcf_shape[1] |->
            FDiv(<<SumSeq([i \in 1..n |->
                               obj.tpcf_matrix[i][e] * ngal[i][1]]),
                   Volume>>,
                 tot)]

Predict ==
    /\ halotab.init
    /\ \E model \in ModelSet :
       \E ngal \in {Ngal(halotab.gal_type, model)} :
          prediction' =
             [made |-> TRUE, model |-> model, ngal |-> ngal,
              xi |-> IF halotab.attrs.mode = "auto"
                     THEN PredictAuto(halotab, ngal)
                     ELSE PredictCross(halotab, ngal)]
    /\ UNCHANGED <<halocat, mode, sec_haloprop, halos, gals, pos, tpcf_matrix,
                   calls, halotab, pc, files, loaded, lastOp>>

\* a value of the statistic, for the objects predict is applied to
XiNum(i, k, e) == i * k + e - 3

\* The objects tabulate returns, with numbers for the callable's results: the
\* bin table of a filtered catalogue, and a matrix that is zero outside the
\* bins S that held galaxies.
NumMatrix(md, n, S) ==
    IF md = "auto"
    THEN [i \in 1..n |-> [k \in 1..n |-> [e \in 1..NStat |->
             IF i \in S /\ k \in S
             THEN (IF i <= k THEN XiNum(i, k, e) ELSE XiNum(k, i, e))
             ELSE 0]]]
    ELSE [i \in 1..n |-> [e \in 1..NStat |->
             IF i \in S THEN XiNum(i, i, e) ELSE 0]]

TabulatedObject(hs, sec, md, S) ==
    LET table == BinTable(hs, sec)
    IN  [init |-> TRUE, gal_type |-> table, attrs |-> Attrs(md, sec),
         tpcf_args |-> <<>>, tpcf_kwargs |-> {}, tpcf_shape |-> <<NStat>>,
         tpcf_matrix |-> NumMatrix(md, Len(table), S)]

\* the sets of bins that held galaxies: all of them, or all but one
FilledBins(n) == {1..n} \cup {(1..n) \ {r} : r \in 1..n}

PredictInit ==
    /\ \E c \in HaloCatalogs, sec \in BOOLEAN, md \in Modes :
          \E S \in FilledBins(Len(BinTable(FilterHalos(c), sec))) :
             halotab = TabulatedObject(FilterHalos(c), sec, md, S)
    /\ halocat = <<>>
    /\ mode = halotab.attrs.mode
    /\ sec_haloprop = halotab.attrs.sec_haloprop
    /\ halos = <<>>
    /\ gals = <<>>
    /\ pos = <<>>
    /\ tpcf_matrix = Unbound
    /\ calls = <<>>
    /\ pc = "done"
    /\ prediction = NoPrediction
    /\ files = [f \in FNames |-> NoFile]
    /\ loaded = NewTabCorr
    /\ lastOp = NoOp

PredictNext == Predict

SpecPredict == PredictInit /\ [][PredictNext]_vars

----------------------------------------------------------------------------
(* Properties of predict *)

IsCentral(r) == halotab.gal_type[r].gal_type = "centrals"

\* the sum of n_h over the central bins, as a count
CentralDensity ==
    SumSeq([r \in Rows |-> IF IsCentral(r) THEN halotab.gal_type[r].n_h[1] ELSE 0])

\* sum over the central bins i, j of matrix[e, i, j] * n_h[i] * n_h[j]
CentralBlock(e) ==
    SumSeq([i \in Rows |-> SumSeq([j \in Rows |->
        IF IsCentral(i) /\ IsCentral(j)
        THEN halotab.tpcf_matrix[i][j][e] * halotab.gal_type[i].n_h[1]
                                          * halotab.gal_type[j].n_h[1]
        ELSE 0])])

\* C4: in auto mode, with occupation 1 in the central and 0 in the satellite
\* bins, the densities add up to the central n_h and the statistic is the
\* n_h-weighted sum over the central-central block alone, divided by the
\* square of the central density.
C4_CentralsOnly ==
    (prediction.made /\ halotab.attrs.mode = "auto"
        /\ prediction.model = [cen |-> 1, sat |-> 0]) =>
       /\ Len(prediction.ngal) = Len(halotab.gal_type)
       /\ SumDensity(prediction.ngal) = <<CentralDensity, Volume>>
       /\ Len(prediction.xi) = NStat
       /\ \A e \in 1..NStat :
             FEq(prediction.xi[e],
                 FDiv(<<CentralBlock(e), Volume * Volume>>,
                      <<CentralDensity * CentralDensity, Volume * Volume>>))

\* such a prediction, where a populated satellite bin has a non-zero entry
C4_Witness ==
    /\ prediction.made /\ halotab.attrs.mode = "auto"
    /\ prediction.model = [cen |-> 1, sat |-> 0]
    /\ CentralDensity > 0
    /\ prediction.xi[1].kind = "finite"
    /\ \E i \in Rows, j \in Rows :
          /\ ~IsCentral(j)
          /\ halotab.gal_type[i].n_h[1] > 0 /\ halotab.gal_type[j].n_h[1] > 0
          /\ halotab.tpcf_matrix[i][j][1] # 0

ZeroModel == [cen |-> 0, sat |-> 0]

\* C8: predict with zero occupation in every bin raises nothing: it returns
\* densities that are all zero and a statistic with no finite entry, in auto
\* and in cross mode, and leaves the object as it was.
C8_ZeroOccupation ==
    [][(prediction' # prediction /\ prediction'.model = ZeroModel) =>
          /\ prediction'.made
          /\ Len(prediction'.ngal) = Len(halotab.gal_type)
          /\ \A r \in Rows : prediction'.ngal[r][1] = 0
          /\ SumDensity(prediction'.ngal)[1] = 0
          /\ Len(prediction'.xi) = NStat
          /\ \A e \in 1..NStat : prediction'.xi[e].kind \in {"nan", "inf"}
          /\ halotab' = halotab]_vars

\* a zero-occupation prediction over bins that do hold halos, in cross mode
C8_Witness ==
    /\ prediction.made /\ prediction.model = ZeroModel
    /\ halotab.attrs.mode = "cross"
    /\ CentralDensity > 0
    /\ prediction.xi[1].kind = "nan"

\* the same in auto mode
C8_WitnessAuto ==
    /\ prediction.made /\ prediction.model = ZeroModel
    /\ halotab.attrs.mode = "auto"
    /\ CentralDensity > 0
    /\ prediction.xi[1].kind = "nan"

----------------------------------------------------------------------------
(* write and read (lines 269-337) *)

\* the decimal digits of '%d' % n
RECURSIVE Digits(_)
Digits(n) == IF n < 10 THEN <<n>> ELSE Append(Digits(n \div 10), n % 10)

\* line 331: the member name 'arg_%d' % i, kept as the digits after 'arg_'
ArgName(i) == Digits(i)

\* the order of names in an HDF5 group: character by character
NameLess(a, b) ==
    \E p \in 1..Len(b) :
       /\ \A q \in 1..(p - 1) : q <= Len(a) /\ a[q] = b[q]
       /\ \/ p > Len(a)
          \/ p <= Len(a) /\ a[p] < b[p]

\* fstream[group].keys(): the names of a group, in the order of iteration
RECURSIVE GroupKeys(_)
GroupKeys(names) ==
    IF names = {} THEN <<>>
    ELSE LET first == CHOOSE a \in names :
                         \A b \in names \ {a} : NameLess(a, b)
         IN  <<first>> \o GroupKeys(names \ {first})

ValueAt(group, name) == (CHOOSE en \in group : en[1] = name)[2]

\* lines 323-337: what write stores
Bundle(self) ==
    [exists |-> TRUE, fresh |-> TRUE,
     attrs |-> self.attrs,
     has |-> {"tpcf_matrix", "tpcf_shape", "gal_type"}
             \cup (IF Len(self.tpcf_args) > 0 THEN {"tpcf_args"} ELSE {})
             \cup (IF self.tpcf_kwargs # {} THEN {"tpcf_kwargs"} ELSE {}),
     tpcf_matrix |-> self.tpcf_matrix,
     tpcf_args |-> {<<ArgName(i - 1), self.tpcf_args[i]>> :
                       i \in 1..Len(self.tpcf_args)},
     tpcf_kwargs |-> self.tpcf_kwargs,
     tpcf_shape |-> self.tpcf_shape,
     gal_type |-> self.gal_type]

\* mutant: the file is opened with 'w', which truncates
CanCreateTruncating(fs, f) == TRUE

\* line 321: h5py.File(fname, 'w-') fails if the file exists
CanCreate(fs, f) == ~fs[f].exists

Write(f) ==
    /\ halotab.init
    /\ IF CanCreate(files, f)
       THEN /\ files' = [files EXCEPT ![f] = Bundle(halotab)]
            /\ lastOp' = [op |-> "write", fname |-> f, ok |-> TRUE]
       ELSE /\ files' = files
            /\ lastOp' = [op |-> "write", fname |-> f, ok |-> FALSE]
    /\ UNCHANGED <<halocat, mode, sec_haloprop, halos, gals, pos, tpcf_matrix,
                   calls, halotab, pc, prediction, loaded>>

\* lines 286-309: the object read from a bundle; ok is FALSE where a member
\* that is read unconditionally is missing (KeyError)
ReadBundle(b) ==
    IF {"tpcf_matrix", "tpcf_args", "tpcf_shape", "gal_type"} \subseteq b.has
    THEN LET keys == GroupKeys({en[1] : en \in b.tpcf_args})
         IN  [ok |-> TRUE,
              obj |-> [init |-> TRUE,
                       attrs |-> b.attrs,
                       tpcf_matrix |-> b.tpcf_matrix,
                       tpcf_args |-> [j \in 1..Len(keys) |->
                                         ValueAt(b.tpcf_args, keys[j])],
                       tpcf_kwargs |-> IF "tpcf_kwargs" \in b.has
                                       THEN b.tpcf_kwargs ELSE {},
                       tpcf_shape |-> b.tpcf_shape,
                       gal_type |-> b.gal_type]]
    ELSE [ok |-> FALSE, obj |-> NewTabCorr]

Read(f) ==
    /\ IF files[f].exists /\ ReadBundle(files[f]).ok
       THEN /\ loaded' = ReadBundle(files[f]).obj
            /\ lastOp' = [op |-> "read", fname |-> f, ok |-> TRUE]
       ELSE /\ loaded' = loaded
            /\ lastOp' = [op |-> "read", fname |-> f, ok |-> FALSE]
    /\ UNCHANGED <<halocat, mode, sec_haloprop, halos, gals, pos, tpcf_matrix,
                   calls, halotab, pc, prediction, files>>

\* Inputs of the persistence operations

SampleCatalog ==
    [j \in 1..NHalos |->
        [halo_pid |-> -1, mass |-> IF j = 1 THEN 10 ELSE 100,
         sec_percentile |-> IF j = 1 THEN 25 ELSE 50]]

\* positional arguments of the callable: distinct values, or all the same
ArgTuples ==
    {[i \in 1..n |-> IF asc THEN i ELSE 7] : n \in 0..MaxArgs, asc \in BOOLEAN}

\* keyword arguments of the callable
KwargDicts == SUBSET {<<"period", 250>>, <<"pi_max", 40>>}

WithArgs(obj, args, kwargs) ==
    [obj EXCEPT !.tpcf_args = args, !.tpcf_kwargs = kwargs]

\* a bundle left by an earlier run
OldBundle ==
    [Bundle(WithArgs(TabulatedObject(<<>>, FALSE, "cross", {1}), <<3>>, {}))
        EXCEPT !.fresh = FALSE]

IOInit ==
    /\ \E sec \in BOOLEAN, md \in Modes, args \in ArgTuples,
          kwargs \in KwargDicts :
          halotab = WithArgs(
                       TabulatedObject(FilterHalos(SampleCatalog), sec, md,
                                       1..(2 * NBins)),
                       args, kwargs)
    /\ files \in [FNames -> {NoFile, OldBundle}]
    /\ loaded = NewTabCorr
    /\ lastOp = NoOp
    /\ halocat = <<>>
    /\ mode = halotab.attrs.mode
    /\ sec_haloprop = halotab.attrs.sec_haloprop
    /\ halos = <<>>
    /\ gals = <<>>
    /\ pos = <<>>
    /\ tpcf_matrix = Unbound
    /\ calls = <<>>
    /\ pc = "done"
    /\ prediction = NoPrediction

IONext ==
    \/ \E f \in FNames : Write(f)
    \/ \E f \in FNames : Read(f)

SpecIO == IOInit /\ [][IONext]_vars

----------------------------------------------------------------------------
(* Properties of write and read *)

\* C5: reading back a bundle this object wrote to a new file succeeds and
\* gives the same bin table, matrix, attributes, result shape, keyword
\* arguments and positional arguments, in the same order.
C5_RoundTrip ==
    (lastOp.op = "read" /\ files[lastOp.fname].exists
        /\ files[lastOp.fname].fresh) =>
       /\ lastOp.ok
       /\ loaded.gal_type = halotab.gal_type
       /\ loaded.tpcf_matrix = halotab.tpcf_matrix
       /\ loaded.attrs = halotab.attrs
       /\ loaded.tpcf_shape = halotab.tpcf_shape
       /\ loaded.tpcf_kwargs = halotab.tpcf_kwargs
       /\ loaded.tpcf_args = halotab.tpcf_args

\* C5 on the inputs where the code does round-trip: one to ten positional
\* arguments
C5_RoundTripUpToTen ==
    (lastOp.op = "read" /\ files[lastOp.fname].exists
        /\ files[lastOp.fname].fresh
        /\ Len(halotab.tpcf_args) \in 1..10) =>
       /\ lastOp.ok
       /\ loaded = halotab

\* C6: write on a file name that exists fails and stores nothing: no step
\* changes a file that exists, and a write on it reports the error.
C6_NoOverwrite ==
    [][\A f \in FNames :
          files[f].exists =>
             /\ files'[f] = files[f]
             /\ (lastOp' # lastOp /\ lastOp'.op = "write" /\ lastOp'.fname = f)
                   => ~lastOp'.ok]_vars

\* a refused write on a file left by an earlier run, after this object was
\* stored under the other name
C6_Witness ==
    /\ lastOp = [op |-> "write", fname |-> "f1", ok |-> FALSE]
    /\ files["f1"] = OldBundle
    /\ files["f2"].fresh
    /\ Bundle(halotab) # [OldBundle EXCEPT !.fresh = TRUE]

====
